---- MODULE Spec2Model ----
(***************************************************************************)
(* Model of pytrix/ls.py (class OLS): the design-matrix builder makeX, the *)
(* constructor __init__ and the lazily cached inference properties.        *)
(*                                                                         *)
(* Numbers.  A float is modelled exactly as a rational [n |-> Int,         *)
(* d |-> Nat] in lowest terms; d = 0 encodes the IEEE specials             *)
(* (n = 1: +inf, n = -1: -inf, n = 0: nan).  Calls into the external       *)
(* collaborators whose values are not rational (sqrt, log, the t and F     *)
(* distribution functions) are kept as records naming the call and its     *)
(* arguments.                                                              *)
(***************************************************************************)
EXTENDS Integers, Sequences, FiniteSets, TLC

\* ------------------------------------------------------------------ bounds
MaxT == 3          \* longest data sequence
MaxK == 2          \* most regressor columns in indep

\* ------------------------------------------------------- float arithmetic
Abs(x) == IF x < 0 THEN -x ELSE x
Sgn(x) == IF x < 0 THEN -1 ELSE IF x = 0 THEN 0 ELSE 1

RECURSIVE GCD(_, _)
GCD(a, b) == IF b = 0 THEN a ELSE GCD(b, a % b)

Norm(n, d) ==
    IF d = 0 THEN [n |-> Sgn(n), d |-> 0]
    ELSE LET g == GCD(Abs(n), Abs(d))
         IN  [n |-> Sgn(d) * (n \div g), d |-> Abs(d) \div g]

R(i)   == [n |-> i, d |-> 1]
NaN    == [n |-> 0, d |-> 0]
Inf    == [n |-> 1, d |-> 0]
IsNaN(a) == a.d = 0 /\ a.n = 0
IsInf(a) == a.d = 0 /\ a.n # 0

RNeg(a) == [n |-> -a.n, d |-> a.d]
RAdd(a, b) ==
    IF IsNaN(a) \/ IsNaN(b) THEN NaN
    ELSE IF IsInf(a) THEN (IF IsInf(b) /\ b.n # a.n THEN NaN ELSE a)
    ELSE IF IsInf(b) THEN b
    ELSE Norm(a.n * b.d + b.n * a.d, a.d * b.d)
RSub(a, b) == RAdd(a, RNeg(b))
RMul(a, b) ==
    IF IsNaN(a) \/ IsNaN(b) THEN NaN
    ELSE IF IsInf(a) \/ IsInf(b)
         THEN (IF a.n = 0 \/ b.n = 0 THEN NaN
               ELSE [n |-> Sgn(a.n) * Sgn(b.n), d |-> 0])
    ELSE Norm(a.n * b.n, a.d * b.d)
\* numpy float division: x/0 is +-inf, 0/0 is nan, no exception
RDiv(a, b) ==
    IF IsNaN(a) \/ IsNaN(b) THEN NaN
    ELSE IF IsInf(b) THEN (IF IsInf(a) THEN NaN ELSE R(0))
    ELSE IF b.n = 0 THEN [n |-> Sgn(a.n), d |-> 0]
    ELSE IF IsInf(a) THEN [n |-> Sgn(a.n) * Sgn(b.n), d |-> 0]
    ELSE Norm(a.n * b.d * Sgn(b.n), a.d * Abs(b.n))

RECURSIVE RSum(_)
RSum(s) == IF s = <<>> THEN R(0) ELSE RAdd(Head(s), RSum(Tail(s)))

\* ndarray.var(): population variance, denominator len(s)
Var(s) ==
    LET T    == Len(s)
        mean == RDiv(RSum(s), R(T))
        dev2 == [i \in 1..T |-> RMul(RSub(s[i], mean), RSub(s[i], mean))]
    IN  RDiv(RSum(dev2), R(T))

\* ---------------------------------------------------------- integer matrices
\* a matrix is a sequence of rows; every matrix here has at least one row
NRows(M) == Len(M)
NCols(M) == Len(M[1])
Shape(M) == <<NRows(M), NCols(M)>>
Transpose(M) == [j \in 1..NCols(M) |-> [i \in 1..NRows(M) |-> M[i][j]]]

RECURSIVE ISum(_)
ISum(s) == IF s = <<>> THEN 0 ELSE Head(s) + ISum(Tail(s))

MatMul(A, B) ==
    [i \in 1..NRows(A) |-> [j \in 1..NCols(B) |->
        ISum([k \in 1..NCols(A) |-> A[i][k] * B[k][j]])]]

HStack(A, B) == [i \in 1..NRows(A) |-> A[i] \o B[i]]

DropAt(s, k) == [i \in 1..(Len(s) - 1) |-> IF i < k THEN s[i] ELSE s[i + 1]]
Minor(M, r, c) == [i \in 1..(NRows(M) - 1) |-> DropAt(DropAt(M, r)[i], c)]

RECURSIVE Det(_)
Det(M) ==
    IF NRows(M) = 1 THEN M[1][1]
    ELSE ISum([j \in 1..NCols(M) |->
               (IF j % 2 = 1 THEN 1 ELSE -1) * M[1][j] * Det(Minor(M, 1, j))])

Cofactor(M, i, j) ==
    IF NRows(M) = 1 THEN 1
    ELSE (IF (i + j) % 2 = 0 THEN 1 ELSE -1) * Det(Minor(M, i, j))
Adjugate(M) == [i \in 1..NRows(M) |-> [j \in 1..NCols(M) |-> Cofactor(M, j, i)]]

\* ------------------------------------------------------------------ values
\* Python None for the attributes that start as None (lines 145-148, 160)
None == [tag |-> "None"]
NoErr == [type |-> "none", line |-> 0]
Raise(type, line) == [type |-> type, line |-> line]

\* trend=None or trend=<offset>
TrendNone == [isNone |-> TRUE, v |-> 0]
TrendAt(v) == [isNone |-> FALSE, v |-> v]

\* a name is a sequence of one-character strings
Digits == <<"0", "1", "2", "3", "4", "5", "6", "7", "8", "9">>
RECURSIVE DecStr(_)
DecStr(n) == IF n < 10 THEN <<Digits[n + 1]>>
             ELSE DecStr(n \div 10) \o <<Digits[(n % 10) + 1]>>
\* "%02i" % n
Fmt02i(n) == IF n < 10 THEN <<"0">> \o DecStr(n) ELSE DecStr(n)
\* "x%02i" % (i+1)
DefaultName(i) == <<"x">> \o Fmt02i(i + 1)
ConstantName == <<"C", "o", "n", "s", "t", "a", "n", "t">>
TrendName == <<"T", "r", "e", "n", "d">>

\* a names argument: a str, a tuple or a list; items are its elements
\* (the elements of a str are its characters)
Str(items)   == [type |-> "str", items |-> items]
Tuple(items) == [type |-> "tuple", items |-> items]
List(items)  == [type |-> "list", items |-> items]
Truthy(names) == Len(names.items) > 0

\* indep: a one-dimensional sequence (ndim = 1, data = <<the sequence>>) or a
\* two-dimensional array (ndim = 2, data = its rows)
Vector(v) == [ndim |-> 1, data |-> <<v>>]
Array2(rows) == [ndim |-> 2, data |-> rows]
\* N.asmatrix: a one-dimensional sequence becomes a single row
asmatrix(indep) == indep.data
\* len(indep)
PyLen(indep) == IF indep.ndim = 1 THEN Len(indep.data[1]) ELSE Len(indep.data)

\* ------------------------------------------------------------------- makeX
\* mutant: a single row is never taken for a one-dimensional indep
one_dimensional_never(X0) == FALSE
\* len(X)==1: "must have been a one dimensional indep"
one_dimensional(X0) == Len(X0) = 1
\* mutant: "x%02i"%i, numbering from zero
default_names_from_zero(nvars) == Tuple([i \in 1..nvars |-> <<"x">> \o Fmt02i(i - 1)])
\* tuple("x%02i"%(i+1) for i in range(nvars))
default_names(nvars) == Tuple([i \in 1..nvars |-> DefaultName(i - 1)])
\* constant*N.ones((nobs,1))
constant_column(nobs, constant) == [i \in 1..nobs |-> <<constant * 1>>]
\* (N.arange(nobs)-N.mat([trend])).T
trend_column(nobs, trend) == [i \in 1..nobs |-> <<(i - 1) - trend.v>>]
\* mutant: "trend" tested for truth instead of "is not None"
makeX_branch_truthy(constant, trend) ==
    IF constant # 0 /\ ~trend.isNone /\ trend.v # 0 THEN "both"
    ELSE IF constant # 0 THEN "constant"
    ELSE IF ~trend.isNone /\ trend.v # 0 THEN "trend"
    ELSE "none"
\* which branch of the if/elif chain runs
makeX_branch(constant, trend) ==
    IF constant # 0 /\ ~trend.isNone THEN "both"
    ELSE IF constant # 0 THEN "constant"
    ELSE IF ~trend.isNone THEN "trend"
    ELSE "none"
\* the names appended by the branch
appended_names(branch) ==
    CASE branch = "both"     -> <<ConstantName, TrendName>>
      [] branch = "constant" -> <<ConstantName>>
      [] branch = "trend"    -> <<TrendName>>
      [] OTHER               -> <<>>

\* Returns [self, X, err]: the attributes set on self, the design matrix
\* and the exception raised, if any (then X is not returned to the caller).
makeX(self, indep, constant, trend) ==
    LET X0     == asmatrix(indep)
        X      == IF one_dimensional(X0) THEN Transpose(X0) ELSE X0
        nobs   == Len(X)
        nvars  == NCols(X)
        names  == IF Truthy(self.indep_names) THEN self.indep_names
                  ELSE default_names(nvars)
        ccol   == constant_column(nobs, constant)
        tcol   == trend_column(nobs, trend)
        branch == makeX_branch(constant, trend)
        Xout   == CASE branch = "both"     -> HStack(HStack(X, ccol), tcol)
                    [] branch = "constant" -> HStack(X, ccol)
                    [] branch = "trend"    -> HStack(X, tcol)
                    [] OTHER               -> X
        extra  == appended_names(branch)
        ncoefs == nvars + Len(extra)
        line   == CASE branch = "both" -> 233 [] branch = "constant" -> 239
                    [] OTHER -> 245
        s1     == [indep_names |-> names, nobs |-> nobs, nvars |-> nvars]
    IN  IF branch # "none" /\ names.type = "str"
        THEN \* str += tuple
             [self |-> s1, X |-> Xout, err |-> Raise("TypeError", line)]
        ELSE [self |-> [indep_names |-> [names EXCEPT !.items = @ \o extra],
                        nobs |-> nobs, nvars |-> nvars, ncoefs |-> ncoefs],
              X    |-> Xout,
              err  |-> NoErr]

\* ------------------------------------------------------------------- lstsq
\* numpy.linalg.lstsq(X, Y)[:2] for a column Y.  The solver reports the
\* residual sum of squares only when rank(X) = n and m > n; otherwise the
\* residual array is empty.  With full column rank the solution is
\* (X'X)^-1 X'Y; the least-norm solution of a rank-deficient system is kept
\* as an opaque value.
IntMat(M) == [i \in 1..NRows(M) |-> [j \in 1..NCols(M) |-> R(M[i][j])]]
\* rational matrix times rational column vector
RMatVec(A, v) ==
    [i \in 1..Len(A) |-> RSum([k \in 1..Len(v) |-> RMul(A[i][k], v[k])])]
RDot(u, v) == RSum([k \in 1..Len(u) |-> RMul(u[k], v[k])])
Column(M, j) == [i \in 1..NRows(M) |-> M[i][j]]

full_rank(X) == Det(MatMul(Transpose(X), X)) # 0

solve(X, Y) ==
    LET xTx == MatMul(Transpose(X), X)
        xTy == MatMul(Transpose(X), Y)
        det == Det(xTx)
        num == MatMul(Adjugate(xTx), xTy)
    IN  [i \in 1..NCols(X) |-> Norm(num[i][1], det)]

lstsq(X, Y) ==
    LET m   == NRows(X)
        n   == NCols(X)
        ok  == full_rank(X)
        x   == solve(X, Y)
        fit == RMatVec(IntMat(X), x)
        e   == [i \in 1..m |-> RSub(R(Y[i][1]), fit[i])]
    IN  IF ok /\ m > n
        THEN [x |-> x, resids |-> <<RDot(e, e)>>]
        ELSE [x |-> IF ok THEN x ELSE <<>>, resids |-> <<>>]

\* What the floating-point solver can report for a residual sum of squares:
\* a sum that is zero in exact arithmetic comes out as exactly 0.0 or as a
\* positive rounding residue, depending on the build.
RoundingResidue == Norm(1, 2^20)
float_rss(rss) == IF rss = R(0) THEN {R(0), RoundingResidue} ELSE {rss}

\* ---------------------------------------------------------------- __init__
RAbs(a) == [n |-> Abs(a.n), d |-> a.d]
\* a < b for floats; any comparison with nan is false
RLt(a, b) ==
    IF IsNaN(a) \/ IsNaN(b) THEN FALSE
    ELSE IF a.d = 0 \/ b.d = 0
         THEN (IF a.d = 0 /\ b.d = 0 THEN a.n < b.n
               ELSE IF a.d = 0 THEN a.n < 0 ELSE b.n > 0)
    ELSE a.n * b.d < b.n * a.d

\* the empty residual array returned by lstsq, kept as self.ess when the
\* solver's results are wrapped as matrices
EmptyResids == [shape |-> <<1, 0>>]
\* Y = N.mat(dep).reshape(-1,1)
column_of(dep) == [i \in 1..Len(dep) |-> <<dep[i]>>]

\* the exception math.log(0) raises: ValueError, or OverflowError on the
\* oldest supported interpreter
LogZeroErrors == {"ValueError", "OverflowError"}

\* OLS.llf(): the set of outcomes [val, err]
llf(self) ==
    LET arg == RDiv(self.ess, R(self.nobs))
    IN  IF arg = R(0)
        THEN {[val |-> <<>>, err |-> Raise(t, 216)] : t \in LogZeroErrors}
        ELSE {[val |-> <<[stat |-> "llf", nobs |-> self.nobs, log_of |-> arg],
                         [stat |-> "aic", nobs |-> self.nobs, log_of |-> arg,
                          ncoefs |-> self.ncoefs],
                         [stat |-> "bic", nobs |-> self.nobs, log_of |-> arg,
                          ncoefs |-> self.ncoefs]>>,
               err |-> NoErr]}

\* lines 156-160, from the attributes set so far
model_stats(self) ==
    LET R2   == RSub(R(1), RDiv(Var(self._resids), self.yvar))
        df_r == self.ncoefs - 1
    IN  [R2    |-> R2,
         R2adj |-> RSub(R(1), RMul(RSub(R(1), R2),
                      RDiv(R(self.nobs - 1), R(self.nobs - self.ncoefs)))),
         df_r  |-> df_r,
         F     |-> RDiv(RDiv(R2, R(df_r)),
                        RDiv(RSub(R(1), R2), R(self.df_e))),
         _pvalF |-> None]

\* The set of outcomes [self, err] of the constructor: the attributes
\* assigned before it returned or raised, and the exception.  The outcome
\* depends on the build in three places: whether lstsq wraps its residual
\* array as a matrix (then indexing an empty one at line 126 does not raise
\* and the empty array fails the assertion of line 137), the floating-point
\* value of a zero residual sum, and the exception of math.log(0).  The
\* wall-clock attributes date and time are left out.
__init__(a) ==
    LET s0     == [indep_names |-> a.indep_names]
        mx     == makeX(s0, a.indep, a.constant, a.trend)
        X      == mx.X
        s1     == mx.self @@ [X |-> X]
        Y      == column_of(a.dep)
        Yr     == [i \in 1..Len(a.dep) |-> R(a.dep[i])]
        ls     == lstsq(X, Y)
        empty  == ls.resids = <<>>
        fitted == IF ls.x = <<>> THEN <<>> ELSE RMatVec(IntMat(X), ls.x)
        resids == IF ls.x = <<>> THEN <<>>
                  ELSE [i \in 1..Len(Yr) |-> RSub(Yr[i], fitted[i])]
        s2(ess) == s1 @@ [ess |-> ess]
        s3(ess) == s2(ess) @@
                        [yvar     |-> Var(Yr),
                         dep_name |-> IF a.dep_name = "" THEN "y"
                                      ELSE a.dep_name,
                         xTx      |-> MatMul(Transpose(X), X),
                         xTy      |-> MatMul(Transpose(X), Y),
                         fitted   |-> fitted]
        df_e   == s1.nobs - s1.ncoefs
        s4(ess) == s3(ess) @@
                        [_resids |-> resids,
                         coefs   |-> ls.x,
                         df_e    |-> df_e,
                         sigma2  |-> RDiv(ess, R(df_e))]
        s5(ess, l) == s4(ess) @@
                        [llf |-> l.val[1], aic |-> l.val[2], bic |-> l.val[3],
                         _cov |-> None, _standard_errors |-> None,
                         _tvals |-> None, _pvals |-> None]
        s6(ess, l) == s5(ess, l) @@ model_stats(s5(ess, l))
        estimate(ess) ==
            IF ~RLt(RAbs(RSub(ess, RDot(resids, resids))), Norm(1, 1000))
            THEN {[self |-> s3(ess), err |-> Raise("AssertionError", 137)]}
            ELSE {IF l.err # NoErr THEN [self |-> s4(ess), err |-> l.err]
                  ELSE [self |-> s6(ess, l), err |-> NoErr] :
                  l \in llf(s4(ess))}
    IN  IF mx.err # NoErr THEN {[self |-> mx.self, err |-> mx.err]}
        ELSE IF NRows(X) # NRows(Y)
             \* lstsq: 'Incompatible dimensions'
             THEN {[self |-> s1, err |-> Raise("LinAlgError", 124)]}
        ELSE IF empty
             THEN {\* results[1][0] on an empty array
                   [self |-> s1, err |-> Raise("IndexError", 126)],
                   \* results[1][0] on an empty matrix
                   IF Len(a.dep) # PyLen(a.indep)
                   THEN [self |-> s2(EmptyResids),
                         err |-> Raise("AssertionError", 129)]
                   ELSE [self |-> s3(EmptyResids),
                         err |-> Raise("AssertionError", 137)]}
        ELSE IF Len(a.dep) # PyLen(a.indep)
             THEN {[self |-> s2(ess), err |-> Raise("AssertionError", 129)] :
                   ess \in float_rss(ls.resids[1])}
        ELSE UNION {estimate(ess) : ess \in float_rss(ls.resids[1])}

\* -------------------------------------------------------- property getters
\* Each getter returns [self, ret, err, computed, out]: the object after the
\* call, the value returned (None when it raised), the exception, the set of
\* cached fields whose value the call evaluated, and what it printed.
Array(v)  == [tag |-> "array", v |-> v]
PyList(v) == [tag |-> "list", v |-> v]
Float(v)  == [tag |-> "float", v |-> v]
Result(self, ret, err, computed, out) ==
    [self |-> self, ret |-> ret, err |-> err, computed |-> computed,
     out |-> out]

\* values of collaborator calls that are not rational
Sqrt(r)          == [sqrt_of |-> r]
Quot(c, s)       == [num |-> c, den |-> s]
TwoSidedT(t, df) == [two_sided_t_of_abs |-> t, df |-> df]
OneMinusFcdf(F, dfn, dfd) == [one_minus_f_cdf_of |-> F, dfn |-> dfn, dfd |-> dfd]

\* self.sigma2*self.xTx.I.A
covariance(self) ==
    LET adj == Adjugate(self.xTx)
        det == Det(self.xTx)
        n   == NRows(self.xTx)
    IN  [i \in 1..n |-> [j \in 1..n |->
            RMul(self.sigma2, Norm(adj[i][j], det))]]

\* mutant: the covariance is returned without being stored
get_cov_uncached(self) ==
    IF Det(self.xTx) = 0
    THEN Result(self, None, Raise("LinAlgError", 164), {"_cov"}, <<>>)
    ELSE Result(self, Array(covariance(self)), NoErr, {"_cov"}, <<>>)
get_cov(self) ==
    IF self._cov = None
    THEN IF Det(self.xTx) = 0
         THEN Result(self, None, Raise("LinAlgError", 164), {"_cov"}, <<>>)
         ELSE LET new == [self EXCEPT !._cov = Array(covariance(self))]
              IN  Result(new, new._cov, NoErr, {"_cov"}, <<>>)
    ELSE Result(self, self._cov, NoErr, {}, <<>>)

\* self._standard_errors = N.sqrt(self.cov.diagonal()), c the read of cov
store_standard_errors(c) ==
    IF c.err # NoErr THEN c
    ELSE LET se == [i \in 1..Len(c.ret.v) |-> Sqrt(c.ret.v[i][i])]
         IN  Result([c.self EXCEPT !._standard_errors = Array(se)], Array(se),
                    NoErr, c.computed \cup {"_standard_errors"}, <<>>)
get_standard_errors(self) ==
    IF self._standard_errors = None
    THEN store_standard_errors(get_cov(self))
    ELSE Result(self, self._standard_errors, NoErr, {}, <<>>)

\* self._tvals = self.coefs / self.se, e the read of se
store_tvals(e) ==
    IF e.err # NoErr THEN e
    ELSE LET t == [i \in 1..Len(e.self.coefs) |->
                      Quot(e.self.coefs[i], e.ret.v[i])]
         IN  Result([e.self EXCEPT !._tvals = Array(t)], Array(t), NoErr,
                    e.computed \cup {"_tvals"}, <<>>)
get_tvals(self) ==
    IF self._tvals = None
    THEN store_tvals(get_standard_errors(self))
    ELSE Result(self, self._tvals, NoErr, {}, <<>>)

\* mutant: one value per regressor of indep, not per coefficient
inf_list_nvars(self) == [i \in 1..self.nvars |-> Inf]
\* [N.inf for _ in range(self.ncoefs)]
inf_list(self) == [i \in 1..self.ncoefs |-> Inf]

\* self._pvals = (1-stats.t.cdf(N.abs(self.tvals), self.df_e)) * 2, t the
\* read of tvals
store_pvals(t) ==
    IF t.err # NoErr THEN t
    ELSE LET p == [i \in 1..Len(t.ret.v) |->
                      TwoSidedT(t.ret.v[i], t.self.df_e)]
         IN  Result([t.self EXCEPT !._pvals = Array(p)], Array(p), NoErr,
                    t.computed \cup {"_pvals"}, <<>>)
get_pvals(self, scipy) ==
    IF self._pvals = None
    THEN IF scipy
         THEN store_pvals(get_tvals(self))
         ELSE Result([self EXCEPT !._pvals = PyList(inf_list(self))],
                     PyList(inf_list(self)), NoErr, {"_pvals"}, <<>>)
    ELSE Result(self, self._pvals, NoErr, {}, <<>>)

\* With SciPy the value is assigned to self.pvalF, a property without a
\* setter on a new-style class: the assignment raises AttributeError.
pvalF_value(self) == OneMinusFcdf(self.F, self.df_r, self.df_e)
get_pvalF(self, scipy) ==
    IF self._pvalF = None
    THEN IF scipy
         THEN LET value == pvalF_value(self)
              IN  \* self.pvalF = value
                  Result(self, None, Raise("AttributeError", 191),
                         {"_pvalF"}, <<>>)
         ELSE LET new == [self EXCEPT !._pvalF = Float(Inf)]
              IN  Result(new, new._pvalF, NoErr, {"_pvalF"}, <<new._pvalF>>)
    ELSE Result(self, self._pvalF, NoErr, {}, <<>>)

get_resids(self) == Result(self, Array(self._resids), NoErr, {}, <<>>)

\* X.mean(axis=0): a new array of column means
column_means(X) ==
    [j \in 1..NCols(X) |-> RDiv(R(ISum(Column(X, j))), R(NRows(X)))]

\* mutant: the means are taken in place, zeroing column xcol of self.X
slope_intercept_inplace(self, xcol) ==
    IF xcol >= NCols(self.X)
    THEN Result(self, None, Raise("IndexError", 203), {}, <<>>)
    ELSE Result([self EXCEPT !.X = [i \in 1..NRows(@) |->
                                       [@[i] EXCEPT ![xcol + 1] = 0]]],
                [tag |-> "tuple", v |-> <<self.coefs[xcol + 1], R(0)>>],
                NoErr, {}, <<>>)
\* xcol is a 0-based column index
slope_intercept(self, xcol) ==
    IF xcol >= NCols(self.X)
    THEN Result(self, None, Raise("IndexError", 203), {}, <<>>)
    ELSE LET means0 == column_means(self.X)
             means  == [means0 EXCEPT ![xcol + 1] = R(0)]
             intercept == RDot(self.coefs, means)
             slope  == self.coefs[xcol + 1]
         IN  Result(self, [tag |-> "tuple", v |-> <<slope, intercept>>],
                    NoErr, {}, <<>>)

\* one read after another inside a method: r2 is the later read, made on the
\* object r1 left
Merge(r1, r2) ==
    [r2 EXCEPT !.computed = r1.computed \cup @, !.out = r1.out \o @]
\* __str__: the rows read indep_names[i], coefs[i], se[i], tvals[i],
\* pvals[i] for i in range(len(coefs)); then the model statistics read pvalF.
\* The text is kept as the values substituted into the templates.
str_tvals(r) == IF r.err # NoErr THEN r ELSE Merge(r, get_tvals(r.self))
str_pvals(r, scipy) ==
    IF r.err # NoErr THEN r ELSE Merge(r, get_pvals(r.self, scipy))
str_pvalF(r, scipy) ==
    IF r.err # NoErr THEN r ELSE Merge(r, get_pvalF(r.self, scipy))
str_reads(self, scipy) ==
    str_pvals(str_tvals(get_standard_errors(self)), scipy)
\* indep_names[i] for a names list shorter than coefs
str_names(r) ==
    IF r.err = NoErr /\ Len(r.self.indep_names.items) < Len(r.self.coefs)
    THEN Result(r.self, None, Raise("IndexError", 273), r.computed, r.out)
    ELSE r
str_text(r) ==
    IF r.err # NoErr THEN r
    ELSE Result(r.self,
                [tag |-> "str",
                 v   |-> [dep_name |-> r.self.dep_name,
                          nobs     |-> r.self.nobs,
                          ncoefs   |-> Len(r.self.coefs),
                          rows     |-> [i \in 1..Len(r.self.coefs) |->
                              [name |-> r.self.indep_names.items[i],
                               coef |-> r.self.coefs[i],
                               se   |-> r.self._standard_errors.v[i],
                               t    |-> r.self._tvals.v[i],
                               p    |-> r.self._pvals.v[i]]],
                          llf   |-> r.self.llf,   rsq |-> r.self.R2,
                          R2adj |-> r.self.R2adj, F   |-> r.self.F,
                          pvalF |-> r.ret.v,
                          aic   |-> r.self.aic,   bic |-> r.self.bic]],
                NoErr, r.computed, r.out)
__str__(self, scipy) ==
    str_text(str_pvalF(str_names(str_reads(self, scipy)), scipy))

\* ============================================================== iterate.py
\* A real-valued function of a real variable, given by [a, b, tiny]:
\* f(x) = (a*x + b) * scale, with scale = 1, or 2.0**-600 when tiny.  A value
\* of f is kept as [v, tiny], v the unscaled value: its sign is the sign of
\* v, and the float product of two tiny values underflows to zero.
call(f, x) == [v |-> RAdd(RMul(R(f.a), x), R(f.b)), tiny |-> f.tiny]
Positive(y) == RLt(R(0), y.v)
Negative(y) == RLt(y.v, R(0))
\* f1*f2 > 0 in float arithmetic
product_positive(f1, f2) ==
    ~(f1.tiny /\ f2.tiny) /\ RLt(R(0), RMul(f1.v, f2.v))
\* (x + y)/2 under true division
midpoint(x, y) == RDiv(RAdd(x, y), R(2))

\* lines 157-162: the while loop of bisect, n the iterations made
RECURSIVE bisect_while(_, _, _, _, _)
bisect_while(f, xneg, xpos, eps, n) ==
    IF RLt(eps, RSub(xpos, xneg))
    THEN LET xmid == midpoint(xneg, xpos)
         IN  IF Positive(call(f, xmid))
             THEN bisect_while(f, xneg, xmid, eps, n + 1)
             ELSE bisect_while(f, xmid, xpos, eps, n + 1)
    ELSE [xneg |-> xneg, xpos |-> xpos, iterations |-> n]

\* line 156: xneg, xpos = (x1,x2) if(f2>0) else (x2,x1)
bracket(f, x1, x2) ==
    IF Positive(call(f, x2)) THEN <<x1, x2>> ELSE <<x2, x1>>

\* bisect(f, x1, x2, eps): [ret, err, locals]
bisect(f, x1, x2, eps) ==
    IF product_positive(call(f, x1), call(f, x2))
    THEN [ret |-> None, err |-> Raise("ValueError", 154), locals |-> <<>>]
    ELSE LET b == bracket(f, x1, x2)
             w == bisect_while(f, b[1], b[2], eps, 0)
         IN  [ret    |-> Float(midpoint(w.xneg, w.xpos)),
              err    |-> NoErr,
              locals |-> w]

\* ---------------------------------------------------------- stop criteria
Bool(b) == [tag |-> "bool", v |-> b]
NotImplemented == [tag |-> "NotImplemented"]
\* the truth value of what test returned (NotImplemented is true)
is_true(t) == t = NotImplemented \/ t = Bool(TRUE)

\* StopIter.__init__ of class cls: [self, err]
StopIter__init__(cls, precision, maxit) ==
    IF maxit < 1 \/ ~RLt(R(0), precision)
    THEN [self |-> [cls |-> cls], err |-> Raise("ValueError", 172)]
    ELSE [self |-> [cls |-> cls, precision |-> precision, maxit |-> maxit,
                    optimized |-> FALSE],
          err  |-> NoErr]

RMax(x, y) == IF RLt(x, y) THEN y ELSE x
\* test of StopIter (not overridden), AbsDiff and RelDiff
test(c, testval) ==
    LET diff == RAbs(RSub(testval[1], testval[2]))
    IN  CASE c.cls = "AbsDiff" -> Bool(RLt(diff, c.precision))
          [] c.cls = "RelDiff" ->
                Bool(RLt(diff, RMul(c.precision,
                                    RMax(RAbs(testval[1]), RAbs(testval[2])))))
          [] OTHER -> NotImplemented

\* mutant: a stop on maxit counts as optimized
StopIter__call___maxit_optimized(c, testval, iterations) ==
    IF iterations >= c.maxit
    THEN [self |-> [c EXCEPT !.optimized = TRUE], ret |-> Bool(TRUE),
          tested |-> FALSE]
    ELSE IF is_true(test(c, testval))
    THEN [self |-> [c EXCEPT !.optimized = TRUE], ret |-> Bool(TRUE),
          tested |-> TRUE]
    ELSE [self |-> c, ret |-> Bool(FALSE), tested |-> TRUE]
\* StopIter.__call__: [self, ret, tested], tested telling whether test ran
StopIter__call__(c, testval, iterations) ==
    IF iterations >= c.maxit
    THEN [self |-> c, ret |-> Bool(TRUE), tested |-> FALSE]
    ELSE IF is_true(test(c, testval))
    THEN [self |-> [c EXCEPT !.optimized = TRUE], ret |-> Bool(TRUE),
          tested |-> TRUE]
    ELSE [self |-> c, ret |-> Bool(FALSE), tested |-> TRUE]

\* ------------------------------------------------------------------ Bisect
\* the bound method self.default_criterion of a Bisect: it takes no argument
\* and returns the test on the bracket's width
default_criterion == [tag |-> "method", name |-> "Bisect.default_criterion",
                      nargs |-> 0]
\* IterativeProcess.set_criterion
set_criterion(self, criterion) ==
    self @@ [criterion |-> IF criterion = None THEN default_criterion
                           ELSE criterion]

\* Bisect.__init__: [self, err]
Bisect__init__(func, x1, x2, criterion) ==
    LET s0 == set_criterion([value |-> None, iterations |-> 0,
                             history |-> <<>>], criterion)
        s1 == s0 @@ [func |-> func]
        f1 == call(func, x1)
        f2 == call(func, x2)
    IN  IF Negative(f1) /\ Positive(f2)
        THEN [self |-> s1 @@ [x_neg |-> x1, x_pos |-> x2], err |-> NoErr]
        ELSE IF Negative(f2) /\ Positive(f1)
        THEN [self |-> s1 @@ [x_neg |-> x2, x_pos |-> x1], err |-> NoErr]
        ELSE [self |-> s1, err |-> Raise("ValueError", 118)]

get_testval(self) == <<self.x_neg, self.x_pos>>
record_history(self) ==
    [self EXCEPT !.history = Append(@, get_testval(self))]
finalize(self) ==
    [self EXCEPT !.value = Float(midpoint(self.x_neg, self.x_pos))]
iterate(self) ==
    LET midpt == midpoint(self.x_neg, self.x_pos)
    IN  IF Positive(call(self.func, midpt))
        THEN [self EXCEPT !.x_pos = midpt]
        ELSE [self EXCEPT !.x_neg = midpt]

\* line 50: self.criterion(testval, iterations): [self, ret, err], self the
\* criterion after the call.  The bound method default_criterion takes no
\* argument: calling it with two raises TypeError.
criterion_call(criterion, testval, iterations) ==
    IF criterion = default_criterion
    THEN [self |-> criterion, ret |-> None, err |-> Raise("TypeError", 50)]
    ELSE [self |-> StopIter__call__(criterion, testval, iterations).self,
          ret  |-> StopIter__call__(criterion, testval, iterations).ret,
          err  |-> NoErr]

\* lines 47-52: the for loop of IterativeProcess.run over testval_generator,
\* iterations the count before this pass: [self, err]
RECURSIVE run_for(_, _)
\* lines 50-52, s the object after iterate and record_history, c the
\* outcome of the criterion
run_break(s, c, iterations) ==
    IF c.err # NoErr THEN [self |-> s, err |-> c.err]
    ELSE IF c.ret = Bool(TRUE)
    THEN [self |-> [s EXCEPT !.criterion = c.self,
                             !.iterations = iterations],
          err  |-> NoErr]
    ELSE run_for([s EXCEPT !.criterion = c.self], iterations)
\* lines 48-50, s the object after iterate
run_pass(s, iterations) ==
    run_break(record_history(s),
              criterion_call(s.criterion, get_testval(s), iterations),
              iterations)
run_for(self, iterations) == run_pass(iterate(self), iterations + 1)
\* line 53, after the loop
run_finalize(r) ==
    IF r.err # NoErr THEN r ELSE [self |-> finalize(r.self), err |-> NoErr]
\* IterativeProcess.run on a Bisect: [self, err]
run(self) == run_finalize(run_for(record_history(self), 0))

\* ================================================================= text.py
\* Python strings are TLA+ strings: Len, \o and SubSeq work on them.
RECURSIVE str_times(_, _)
\* s * n
str_times(s, n) == IF n <= 0 THEN "" ELSE s \o str_times(s, n - 1)
RECURSIVE str_join(_, _)
\* sep.join(xs)
str_join(sep, xs) ==
    IF xs = <<>> THEN ""
    ELSE IF Len(xs) = 1 THEN xs[1]
    ELSE xs[1] \o sep \o str_join(sep, Tail(xs))
RECURSIVE str_int(_)
\* "%s" % n for an int n >= 0
str_int(n) == IF n < 10 THEN Digits[n + 1]
              ELSE str_int(n \div 10) \o Digits[(n % 10) + 1]
\* fmt % s for a format with one %s
percent(fmt, s) ==
    LET at == {i \in 1..(Len(fmt) - 1) : SubSeq(fmt, i, i + 1) = "%s"}
        i  == CHOOSE j \in at : \A k \in at : j <= k
    IN  SubSeq(fmt, 1, i - 1) \o s \o SubSeq(fmt, i + 2, Len(fmt))
RECURSIVE str_replace(_, _, _)
\* s.replace(old, new) for a one-character old
str_replace(s, old, new) ==
    IF s = "" THEN ""
    ELSE (IF SubSeq(s, 1, 1) = old THEN new ELSE SubSeq(s, 1, 1))
         \o str_replace(SubSeq(s, 2, Len(s)), old, new)
ljust(s, width) == s \o str_times(" ", width - Len(s))
rjust(s, width) == str_times(" ", width - Len(s)) \o s
\* str.center: an odd margin puts the extra space on the left when width is
\* odd, on the right when it is even
center(s, width) ==
    LET marg == width - Len(s)
        left == (marg \div 2) + (IF marg % 2 = 1 /\ width % 2 = 1 THEN 1 ELSE 0)
    IN  IF marg <= 0 THEN s
        ELSE str_times(" ", left) \o s \o str_times(" ", marg - left)
IMax(a, b) == IF a < b THEN b ELSE a

\* SimpleTable.pad
pad(s, width, align) ==
    IF align = "l" THEN ljust(s, width)
    ELSE IF align = "r" THEN rjust(s, width)
    ELSE center(s, width)

\* a dict is a record; an int value of a format option is tagged
IntV(n) == [tag |-> "int", v |-> n]
\* d.update(other)
update(d, other) == other @@ d
\* d.get(key), None when absent, for the options that are not strings
get(d, key) == IF key \in DOMAIN d THEN d[key] ELSE None
\* d.get(key, default) for the options that are strings
get_str(d, key, default) == IF key \in DOMAIN d THEN d[key] ELSE default

default_csv_fmt(self) ==
    [data_fmt |-> "%s", colwidths |-> None, colsep |-> ",",
     table_dec_above |-> "", table_dec_below |-> "", header_dec_below |-> "",
     title_align |-> "", header_fmt |-> "\"%s\"", stub_fmt |-> "\"%s\"",
     data_aligns |-> str_times("l", Len(self.data[1])), stubs_align |-> "l",
     fmt |-> "csv"]
default_txt_fmt(self) ==
    [data_fmt |-> "%s", colwidths |-> IntV(0), colsep |-> " ",
     table_dec_above |-> "=", table_dec_below |-> "-",
     header_dec_below |-> "-", title_align |-> "c",
     data_aligns |-> str_times("c", Len(self.data[1])), stub_fmt |-> "%s",
     stubs_align |-> "l", fmt |-> "txt"]
default_ltx_fmt(self) ==
    [data_fmt |-> "%s", colsep |-> " & ", table_dec_above |-> "\\toprule",
     table_dec_below |-> "\\bottomrule", header_dec_below |-> "\\midrule",
     strip_backslash |-> TRUE, header_fmt |-> "\\textbf{%s}",
     stub_fmt |-> "\\textbf{%s}",
     data_aligns |-> str_times("c", Len(self.data[1])), stubs_align |-> "l",
     fmt |-> "ltx"]

\* SimpleTable.__init__ with fmt, csv_fmt, txt_fmt, ltx_fmt left None; the
\* stubs are strings already
SimpleTable__init__(data, headers, stubs, title) ==
    LET s0 == [data |-> data, headers |-> headers, stubs |-> stubs,
               title |-> title]
    IN  s0 @@ [txt_fmt |-> default_txt_fmt(s0),
               ltx_fmt |-> default_ltx_fmt(s0),
               csv_fmt |-> default_csv_fmt(s0)]

Text(s) == [tag |-> "str", v |-> s]

\* SimpleTable._format_data for a string data_fmt: a new list of lists of
\* strings; is_data tells whether the list returned is the object self.data
_format_data(self, fmt_dict) ==
    [list    |-> [r \in 1..Len(self.data) |->
                    [k \in 1..Len(self.data[r]) |->
                        percent(get_str(fmt_dict, "data_fmt", "%s"),
                                str_int(self.data[r][k]))]],
     is_data |-> FALSE]
\* mutant: the headers to format are handed back as they are, in their list
format_headers_same_list(self, fmt_dict, headers) ==
    [list       |-> IF headers # <<>> THEN headers ELSE self.headers,
     is_headers |-> headers = <<>>]
\* SimpleTable.format_headers: a new list of strings; headers <<>> stands
\* for None as well; is_headers tells whether the list returned is the
\* object self.headers
format_headers(self, fmt_dict, headers) ==
    LET headers2fmt == IF headers # <<>> THEN headers ELSE self.headers
    IN  [list       |-> [k \in 1..Len(headers2fmt) |->
                           percent(get_str(fmt_dict, "header_fmt", "%s"),
                                   headers2fmt[k])],
         is_headers |-> FALSE]
format_stubs(self, fmt_dict, stubs) ==
    LET stubs2fmt == IF stubs # <<>> THEN stubs ELSE self.stubs
    IN  [k \in 1..Len(stubs2fmt) |->
            percent(get_str(fmt_dict, "stub_fmt", "%s"), stubs2fmt[k])]

\* SimpleTable.merge_table_parts: the list data after the insertions, made
\* in place: [data, err]
merge_table_parts(data, headers, stubs) ==
    LET stubbed == [i \in 1..Len(data) |->
                       IF i <= Len(stubs) THEN <<stubs[i]>> \o data[i]
                       ELSE data[i]]
        first   == IF stubs # <<>> THEN <<"">> \o headers ELSE headers
    IN  IF Len(stubs) > Len(data)
        THEN [data |-> [i \in 1..Len(data) |-> <<stubs[i]>> \o data[i]],
              err  |-> Raise("IndexError", 138)]
        ELSE [data |-> IF headers # <<>> THEN <<first>> \o stubbed
                       ELSE stubbed,
              err  |-> NoErr]

\* izip(*tablestrings): the columns, as many as the shortest row has cells
izip(tablestrings) ==
    LET n == CHOOSE m \in {Len(tablestrings[r]) : r \in 1..Len(tablestrings)} :
                 \A r \in 1..Len(tablestrings) : m <= Len(tablestrings[r])
    IN  [k \in 1..n |-> [r \in 1..Len(tablestrings) |-> tablestrings[r][k]]]
RECURSIVE max_len(_)
\* max(len(d) for d in c)
max_len(c) == IF Len(c) = 1 THEN Len(c[1])
              ELSE IMax(Len(c[1]), max_len(Tail(c)))
\* SimpleTable.get_colwidths; colwidths is None or an int
get_colwidths(tablestrings, fmt_dict) ==
    LET ncols == Len(tablestrings[1])
        request_widths == get(fmt_dict, "colwidths")
        columns == izip(tablestrings)
    IN  IF request_widths = None THEN [k \in 1..ncols |-> 0]
        ELSE [k \in 1..Len(columns) |->
                 IMax(max_len(columns[k]), request_widths.v)]
\* SimpleTable.get_cols_aligns
get_cols_aligns(self, fmt_dict) ==
    LET ncols == Len(self.data[1])
    IN  IF "cols_aligns" \in DOMAIN fmt_dict
           /\ Len(fmt_dict.cols_aligns) = ncols
        THEN fmt_dict.cols_aligns
        ELSE (IF self.stubs # <<>>
              THEN get_str(fmt_dict, "stubs_align", "l") ELSE "")
             \o get_str(fmt_dict, "data_aligns",
                        str_times("c", IF self.stubs # <<>> THEN ncols - 1
                                       ELSE ncols))

\* the line of _format_rows at which index k is out of range
index_error_line(row, cols_aligns, colwidths, k) ==
    IF k > Len(row) THEN 97 ELSE IF k > Len(cols_aligns) THEN 98 ELSE 99
\* SimpleTable._format_rows: [rows, ncells, err], ncells the number of cells
\* put in each row.  The inner loop runs k over range(nrows).
_format_rows(self, tablestrings, fmt_dict) ==
    LET colwidths   == get_colwidths(tablestrings, fmt_dict)
        cols_aligns == get_cols_aligns(self, fmt_dict)
        nrows       == Len(tablestrings)
        short       == {r \in 1..nrows :
                           \/ nrows > Len(tablestrings[r])
                           \/ nrows > Len(cols_aligns)
                           \/ nrows > Len(colwidths)}
        r0          == CHOOSE r \in short : \A q \in short : r <= q
        k0          == CHOOSE k \in 1..nrows :
                           /\ \/ k > Len(tablestrings[r0])
                              \/ k > Len(cols_aligns)
                              \/ k > Len(colwidths)
                           /\ \A j \in 1..(k - 1) :
                                  /\ j <= Len(tablestrings[r0])
                                  /\ j <= Len(cols_aligns)
                                  /\ j <= Len(colwidths)
    IN  IF short # {}
        THEN [rows |-> <<>>, ncells |-> <<>>,
              err  |-> Raise("IndexError",
                             index_error_line(tablestrings[r0], cols_aligns,
                                              colwidths, k0))]
        ELSE [rows   |-> [r \in 1..nrows |->
                            get_str(fmt_dict, "pre", "")
                            \o str_join(fmt_dict.colsep,
                                 [k \in 1..nrows |->
                                    pad(tablestrings[r][k], colwidths[k],
                                        SubSeq(cols_aligns, k, k))])
                            \o get_str(fmt_dict, "post", "")],
              ncells |-> [r \in 1..nrows |-> nrows],
              err    |-> NoErr]

\* lines 164-180 of as_text, fr the outcome of _format_rows
text_of_rows(self, fr, txt_headers, fmt_dict) ==
    LET headerlen == Len(fr.rows[1])
        begin == (IF self.title # ""
                  THEN pad(self.title, headerlen, fmt_dict.title_align)
                  ELSE "")
                 \o (IF fmt_dict.table_dec_above # ""
                     THEN "\n" \o str_times(fmt_dict.table_dec_above, headerlen)
                     ELSE "")
        rows  == IF txt_headers # <<>> /\ fmt_dict.header_dec_below # ""
                 THEN [fr.rows EXCEPT ![1] =
                          @ \o "\n"
                            \o str_times(fmt_dict.header_dec_below, headerlen)]
                 ELSE fr.rows
        end   == IF fmt_dict.table_dec_below # ""
                 THEN str_times(fmt_dict.table_dec_below, headerlen) \o "\n"
                 ELSE ""
    IN  begin \o "\n" \o str_join("\n", rows) \o "\n" \o end

\* the table after merge_table_parts: the insertions are made in the lists
\* d and h, and show in self when d is self.data or h is self.headers
after_merge(self, d, h, merged) ==
    [self EXCEPT
       !.data    = IF d.is_data THEN merged.data ELSE @,
       !.headers = IF h.is_headers /\ h.list # <<>> /\ merged.err = NoErr
                   THEN merged.data[1] ELSE @]
\* what a rendering method hands back: [self, ret, err, locals]
rendered(self, fr, text) ==
    [self   |-> self,
     ret    |-> IF fr.err = NoErr THEN Text(text) ELSE None,
     err    |-> fr.err,
     locals |-> [ncells |-> fr.ncells]]
merge_failed(merged) == [rows |-> <<>>, ncells |-> <<>>, err |-> merged.err]

\* SimpleTable.as_text(**fmt)
as_text_end(self, fmt_dict, txt_headers, fr) ==
    rendered(self, fr,
             IF fr.err = NoErr
             THEN text_of_rows(self, fr, txt_headers, fmt_dict) ELSE "")
as_text_rows(self, fmt_dict, txt_headers, merged) ==
    IF merged.err # NoErr THEN rendered(self, merge_failed(merged), "")
    ELSE as_text_end(self, fmt_dict, txt_headers,
                     _format_rows(self, merged.data, fmt_dict))
as_text_merged(self, fmt_dict, d, h, merged) ==
    as_text_rows(after_merge(self, d, h, merged), fmt_dict, h.list, merged)
as_text_merge(self, fmt_dict, d, h) ==
    as_text_merged(self, fmt_dict, d, h,
                   merge_table_parts(d.list, h.list,
                                     format_stubs(self, fmt_dict, <<>>)))
as_text_fmt(self, fmt_dict) ==
    as_text_merge(self, fmt_dict, _format_data(self, fmt_dict),
                  format_headers(self, fmt_dict, <<>>))
as_text(self, fmt) == as_text_fmt(self, update(self.txt_fmt, fmt))

\* SimpleTable.as_csv(**fmt)
as_csv(self, fmt) == as_text(self, update(self.csv_fmt, fmt))

\* lines 234-247 of as_latex_tabular
latex_of_rows(fr, ltx_headers, fmt_dict) ==
    LET begin == percent("\\begin{tabular}{%s}", fmt_dict.data_aligns)
                 \o (IF fmt_dict.table_dec_above # ""
                     THEN "\n" \o fmt_dict.table_dec_above \o "\n" ELSE "")
        rows  == IF ltx_headers # <<>> /\ fmt_dict.header_dec_below # ""
                 THEN [fr.rows EXCEPT ![1] =
                          @ \o "\n" \o fmt_dict.header_dec_below]
                 ELSE fr.rows
        end   == (IF fmt_dict.table_dec_below # ""
                  THEN fmt_dict.table_dec_below \o "\n" ELSE "")
                 \o "\\end{tabular}"
    IN  begin \o str_join("\n", rows) \o "\n" \o end

\* SimpleTable.as_latex_tabular(**fmt)
as_latex_end(self, fmt_dict, ltx_headers, fr) ==
    rendered(self, fr,
             IF fr.err = NoErr THEN latex_of_rows(fr, ltx_headers, fmt_dict)
             ELSE "")
as_latex_rows(self, fmt_dict, ltx_headers, merged) ==
    IF merged.err # NoErr THEN rendered(self, merge_failed(merged), "")
    ELSE as_latex_end(self, fmt_dict, ltx_headers,
                      _format_rows(self, merged.data,
                                   update(fmt_dict, [post |-> "  \\\\"])))
as_latex_merged(self, fmt_dict, d, h, merged) ==
    as_latex_rows(after_merge(self, d, h, merged), fmt_dict, h.list, merged)
as_latex_merge(self, fmt_dict, d, h, ltx_stubs) ==
    as_latex_merged(self, fmt_dict, d, h,
                    merge_table_parts(d.list, h.list, ltx_stubs))
\* lines 223-227: the backslashes of headers and stubs are replaced, then
\* both are formatted; without strip_backslash ltx_headers is unbound
as_latex_fmt(self, fmt_dict) ==
    IF ~fmt_dict.strip_backslash
    THEN [self |-> self, ret |-> None,
          err |-> Raise("UnboundLocalError", 226), locals |-> <<>>]
    ELSE as_latex_merge(self, fmt_dict, _format_data(self, fmt_dict),
            format_headers(self, fmt_dict,
                [k \in 1..Len(self.headers) |->
                    str_replace(self.headers[k], "\\", "$\\backslash$")]),
            format_stubs(self, fmt_dict,
                [k \in 1..Len(self.stubs) |->
                    str_replace(self.stubs[k], "\\", "$\\backslash$")]))
as_latex_tabular(self, fmt) == as_latex_fmt(self, update(self.ltx_fmt, fmt))

\* ------------------------------------------------------------ state machine
VARIABLES
    have_scipy,   \* module flag: scipy.stats imported
    args,         \* the constructor's arguments
    pc,           \* "start", "constructed" or "failed" (constructor raised)
    self,         \* the attributes assigned on the OLS object so far
    op,           \* the last operation called on the object
    ret,          \* what it returned (None when it raised)
    err,          \* the exception it raised (NoErr when it returned)
    computed,     \* cached fields whose value the last operation evaluated
    stdout,       \* values printed so far
    locals        \* local variables of the last function called, at its exit

vars == <<have_scipy, args, pc, self, op, ret, err, computed, stdout, locals>>

\* ------------------------------------------------------------------ inputs
ColumnKinds == {"ones", "ramp", "alt", "step"}
DataColumn(kind, T) ==
    [i \in 1..T |-> CASE kind = "ones" -> 1
                      [] kind = "ramp" -> i - 1
                      [] kind = "alt"  -> (i - 1) % 2
                      [] OTHER         -> IF i = T THEN 1 ELSE 0]
DataArray(kinds, T) ==
    [i \in 1..T |-> [j \in 1..Len(kinds) |-> DataColumn(kinds[j], T)[i]]]
KindTuples == UNION {[1..K -> ColumnKinds] : K \in 1..MaxK}

Deps   == {DataColumn(k, T) : k \in ColumnKinds, T \in 1..MaxT}
Indeps == {Vector(DataColumn(k, T)) : k \in ColumnKinds, T \in 1..MaxT}
          \cup {Array2(DataArray(ks, T)) : ks \in KindTuples, T \in 1..MaxT}
Constants == {0, 1, 2}
Trends    == {TrendNone, TrendAt(0), TrendAt(1)}
NameA == <<"a">>
NameB == <<"b">>
NameArgs == {Str(<<>>), Tuple(<<NameA>>), Tuple(<<NameA, NameB>>),
             Tuple(<<NameA, NameA>>), List(<<NameA, NameB>>),
             Str(<<NameA, NameB>>), Tuple(<<ConstantName>>)}

Start ==
    /\ pc = "start"
    /\ self = None
    /\ op = ""
    /\ ret = None
    /\ err = NoErr
    /\ computed = {}
    /\ stdout = <<>>
    /\ locals = <<>>

\* fits and the reads on them
FitKinds == {"ones", "ramp", "alt"}
FitDeps == {DataColumn(k, T) : k \in {"ramp", "step"}, T \in 1..MaxT}
FitIndeps ==
    {Vector(DataColumn(k, T)) : k \in FitKinds, T \in 1..MaxT}
    \cup {Array2(DataArray(ks, T)) :
             ks \in UNION {[1..K -> FitKinds] : K \in 1..MaxK}, T \in 1..MaxT}
Init ==
    /\ have_scipy \in BOOLEAN
    /\ args \in [dep : FitDeps, indep : FitIndeps, dep_name : {""},
                 indep_names : {Str(<<>>), Tuple(<<NameA>>)},
                 constant : {0, 1}, trend : {TrendNone, TrendAt(0)}]
    /\ Start

\* the design-matrix builder on its own, over every kind of argument
InitMakeX ==
    /\ have_scipy = TRUE
    /\ args \in [dep : {DataColumn("ramp", MaxT)}, indep : Indeps,
                 dep_name : {""}, indep_names : NameArgs,
                 constant : Constants, trend : Trends]
    /\ Start

\* lines 119-121: self.indep_names = indep_names; X = self.makeX(...);
\* self.X = X
MakeX ==
    /\ pc = "start"
    /\ LET mx == makeX([indep_names |-> args.indep_names], args.indep,
                       args.constant, args.trend)
       IN  /\ self' = IF mx.err = NoErr THEN mx.self @@ [X |-> mx.X]
                      ELSE mx.self
           /\ err' = mx.err
           /\ ret' = IF mx.err = NoErr THEN Array(mx.X) ELSE None
           /\ pc' = IF mx.err = NoErr THEN "makeX" ELSE "failed"
    /\ op' = "makeX"
    /\ computed' = {}
    /\ UNCHANGED <<have_scipy, args, stdout, locals>>

\* result = OLS(dep, indep, ...)
Construct ==
    /\ pc = "start"
    /\ \E r \in __init__(args) :
          /\ self' = r.self
          /\ err' = r.err
          /\ pc' = IF r.err = NoErr THEN "constructed" ELSE "failed"
    /\ op' = "__init__"
    /\ ret' = None
    /\ computed' = {}
    /\ UNCHANGED <<have_scipy, args, stdout, locals>>

\* a call on the constructed object
Call(name, r) ==
    /\ pc = "constructed"
    /\ self' = r.self
    /\ ret' = r.ret
    /\ err' = r.err
    /\ computed' = r.computed
    /\ stdout' = stdout \o r.out
    /\ op' = name
    /\ UNCHANGED <<have_scipy, args, pc, locals>>

ReadCov    == pc = "constructed" /\ Call("cov", get_cov(self))
ReadSe     == pc = "constructed" /\ Call("se", get_standard_errors(self))
ReadTvals  == pc = "constructed" /\ Call("tvals", get_tvals(self))
ReadPvals  == pc = "constructed" /\ Call("pvals", get_pvals(self, have_scipy))
ReadPvalF  == pc = "constructed" /\ Call("pvalF", get_pvalF(self, have_scipy))
ReadResids == pc = "constructed" /\ Call("resids", get_resids(self))
SlopeIntercept ==
    /\ pc = "constructed"
    /\ \E xcol \in 0..MaxK : Call("slope_intercept", slope_intercept(self, xcol))
Str_ == pc = "constructed" /\ Call("__str__", __str__(self, have_scipy))

Next ==
    \/ Construct
    \/ ReadCov
    \/ ReadSe
    \/ ReadTvals
    \/ ReadPvals
    \/ ReadPvalF
    \/ ReadResids
    \/ SlopeIntercept
    \/ Str_

Spec == Init /\ [][Next]_vars

NextMakeX == MakeX
SpecMakeX == InitMakeX /\ [][NextMakeX]_vars

\* ------------------------------------------------ bisect, Bisect and run
MaxHalvings == 2
MaxIt == 2
Funcs == [a : {-1, 0, 1}, b : {-1, 0, 1}, tiny : BOOLEAN]
Points == {R(-2), R(0), R(1), R(3)}
Epsilons == {Norm(1, 2^k) : k \in 0..MaxHalvings}
Precisions == {Norm(1, 2), R(1)}
Criteria ==
    {None} \cup {StopIter__init__(cls, p, m).self :
                    cls \in {"AbsDiff", "RelDiff"}, p \in Precisions,
                    m \in 1..MaxIt}

InitBisect ==
    /\ have_scipy = FALSE
    /\ args \in [f : Funcs, x1 : Points, x2 : Points, eps : Epsilons,
                 criterion : Criteria]
    /\ Start

\* bisect(f, x1, x2, eps)
CallBisect ==
    /\ pc = "start"
    /\ LET r == bisect(args.f, args.x1, args.x2, args.eps)
       IN  /\ ret' = r.ret
           /\ err' = r.err
           /\ locals' = r.locals
           /\ pc' = IF r.err = NoErr THEN "returned" ELSE "failed"
    /\ op' = "bisect"
    /\ UNCHANGED <<have_scipy, args, self, computed, stdout>>

\* b = Bisect(f, x1, x2, criterion)
NewBisect ==
    /\ pc = "start"
    /\ LET r == Bisect__init__(args.f, args.x1, args.x2, args.criterion)
       IN  /\ self' = r.self
           /\ err' = r.err
           /\ pc' = IF r.err = NoErr THEN "constructed" ELSE "failed"
    /\ op' = "Bisect.__init__"
    /\ ret' = None
    /\ UNCHANGED <<have_scipy, args, computed, stdout, locals>>

\* b.run()
Run ==
    /\ pc = "constructed"
    /\ LET r == run(self)
       IN  /\ self' = r.self
           /\ err' = r.err
           /\ pc' = IF r.err = NoErr THEN "finished" ELSE "failed"
    /\ op' = "run"
    /\ ret' = None
    /\ UNCHANGED <<have_scipy, args, computed, stdout, locals>>

NextBisect ==
    \/ CallBisect
    \/ NewBisect
    \/ Run
SpecBisect == InitBisect /\ [][NextBisect]_vars

\* ---------------------------------------------------------------- StopIter
StopIterClasses == {"StopIter", "AbsDiff", "RelDiff"}
TestVals == {<<x, y>> : x, y \in {R(0), Norm(1, 2), R(1), R(2)}}
InitStopIter ==
    /\ have_scipy = FALSE
    /\ args \in [cls : StopIterClasses, precision : Precisions \cup {R(0)},
                 maxit : 0..MaxIt]
    /\ Start

\* c = cls(precision, maxit)
NewStopIter ==
    /\ pc = "start"
    /\ LET r == StopIter__init__(args.cls, args.precision, args.maxit)
       IN  /\ self' = r.self
           /\ err' = r.err
           /\ pc' = IF r.err = NoErr THEN "constructed" ELSE "failed"
    /\ op' = "StopIter.__init__"
    /\ ret' = None
    /\ UNCHANGED <<have_scipy, args, computed, stdout, locals>>

\* c(testval, iterations)
CallStopIter ==
    /\ pc = "constructed"
    /\ \E testval \in TestVals, iterations \in 0..(MaxIt + 1) :
          LET r == StopIter__call__(self, testval, iterations)
          IN  /\ self' = r.self
              /\ ret' = r.ret
              /\ locals' = [testval |-> testval, iterations |-> iterations,
                            tested |-> r.tested]
    /\ op' = "__call__"
    /\ err' = NoErr
    /\ UNCHANGED <<have_scipy, args, pc, computed, stdout>>

NextStopIter ==
    \/ NewStopIter
    \/ CallStopIter
SpecStopIter == InitStopIter /\ [][NextStopIter]_vars

\* ------------------------------------------------------------- SimpleTable
MaxDim == 2
Cells == {1, 22}
TableDatas == UNION {[1..nr -> [1..nc -> Cells]] : nr, nc \in 1..MaxDim}
HeaderKinds == {"none", "plain", "backslash"}
TableHeaders(kind, nc) ==
    CASE kind = "none"  -> <<>>
      [] kind = "plain" -> [k \in 1..nc |-> "h" \o str_int(k)]
      [] OTHER          -> [k \in 1..nc |-> "h\\" \o str_int(k)]
TableStubs(given, nr) ==
    IF given THEN [r \in 1..nr |-> "r" \o str_int(r)] ELSE <<>>
Titles == {"", "T"}
\* a call without keyword arguments
NoKwargs == <<>>

InitTable ==
    /\ have_scipy = FALSE
    /\ \E data \in TableDatas, kind \in HeaderKinds, given \in BOOLEAN,
          title \in Titles :
          args = [data    |-> data,
                  headers |-> TableHeaders(kind, Len(data[1])),
                  stubs   |-> TableStubs(given, Len(data)),
                  title   |-> title]
    /\ Start

\* tbl = SimpleTable(data, headers, stubs, title=title)
NewTable ==
    /\ pc = "start"
    /\ self' = SimpleTable__init__(args.data, args.headers, args.stubs,
                                   args.title)
    /\ pc' = "constructed"
    /\ op' = "SimpleTable.__init__"
    /\ UNCHANGED <<have_scipy, args, ret, err, computed, stdout, locals>>

\* a rendering method called on the table
Render(name, r) ==
    /\ pc = "constructed"
    /\ self' = r.self
    /\ ret' = r.ret
    /\ err' = r.err
    /\ locals' = r.locals
    /\ op' = name
    /\ UNCHANGED <<have_scipy, args, pc, computed, stdout>>

AsText == pc = "constructed" /\ Render("as_text", as_text(self, NoKwargs))
AsCsv  == pc = "constructed" /\ Render("as_csv", as_csv(self, NoKwargs))
AsLatexTabular ==
    /\ pc = "constructed"
    /\ Render("as_latex_tabular", as_latex_tabular(self, NoKwargs))

NextTable ==
    \/ NewTable
    \/ AsText
    \/ AsCsv
    \/ AsLatexTabular
SpecTable == InitTable /\ [][NextTable]_vars

TypeOK == pc \in {"start", "makeX", "constructed", "failed"}

\* ================================================================== claims
CacheFields == {"_cov", "_standard_errors", "_tvals", "_pvals", "_pvalF"}
Reader(f) == CASE f = "_cov" -> "cov"
               [] f = "_standard_errors" -> "se"
               [] f = "_tvals" -> "tvals"
               [] f = "_pvals" -> "pvals"
               [] OTHER -> "pvalF"

\* C1: on a constructed fit, a read of cov, se, tvals, pvals or pvalF whose
\* cached field is still None leaves it computed, and a field that is
\* computed is never evaluated again nor changed: the read returns it.
C1_MemoizedOnce ==
    [][pc = "constructed" =>
        \A f \in CacheFields :
            /\ (op' = Reader(f) /\ self[f] = None) => self'[f] # None
            /\ self[f] # None =>
                   /\ self'[f] = self[f]
                   /\ f \notin computed'
                   /\ op' = Reader(f) => ret' = self[f]]_vars

\* C2: without SciPy, reading pvals returns ncoefs values, each +inf, and
\* reading pvalF returns +inf; neither read raises, and coefs, resids and R2
\* are the same after the read as before.
C2_DegradedMode ==
    [][(pc = "constructed" /\ ~have_scipy /\ op' \in {"pvals", "pvalF"}) =>
        /\ err' = NoErr
        /\ op' = "pvals" =>
               /\ Len(ret'.v) = self.ncoefs
               /\ \A i \in 1..Len(ret'.v) : ret'.v[i] = Inf
        /\ op' = "pvalF" => ret'.v = Inf
        /\ self'.coefs = self.coefs
        /\ self'._resids = self._resids
        /\ self'.R2 = self.R2]_vars
C2_Witness ==
    /\ pc = "constructed" /\ ~have_scipy /\ op = "pvals" /\ err = NoErr
    /\ self.ncoefs = 2 /\ self.nvars = 1
    /\ ret.v = <<Inf, Inf>>
    /\ self._pvalF = Float(Inf)

\* C3: with SciPy, reading pvalF succeeds, returns 1 - F_CDF(F, df_r, df_e)
\* and leaves that value in _pvalF.
C3_PvalF ==
    (pc = "constructed" /\ have_scipy /\ op = "pvalF") =>
        /\ err = NoErr
        /\ ret = Float(pvalF_value(self))
        /\ self._pvalF = ret

\* C4: a construction with T <= K' (T observations in both y and indep)
\* fails with DegreesOfFreedomError.
C4_DegreesOfFreedom ==
    (op = "__init__" /\ "ncoefs" \in DOMAIN self
       /\ Len(args.dep) = self.nobs /\ self.nobs <= self.ncoefs) =>
        (pc = "failed" /\ err.type = "DegreesOfFreedomError")

\* C5: a construction whose indep has a row count different from len(y)
\* fails on the dimension check ("Number of observations do not agree",
\* line 129) before any estimation result is produced.
C5_DimensionError ==
    (op = "__init__" /\ "nobs" \in DOMAIN self /\ "X" \in DOMAIN self
       /\ PyLen(args.indep) # Len(args.dep)) =>
        /\ pc = "failed"
        /\ err = Raise("AssertionError", 129)
        /\ "ess" \notin DOMAIN self

\* C6: with a rank-deficient design matrix and T > K', construction succeeds.
C6_RankDeficient ==
    (op = "__init__" /\ "ncoefs" \in DOMAIN self
       /\ Len(args.dep) = self.nobs /\ PyLen(args.indep) = self.nobs
       /\ self.nobs > self.ncoefs /\ ~full_rank(self.X)) =>
        pc = "constructed"

\* the data of indep as the caller gave it
GivenT(indep) == IF indep.ndim = 1 THEN Len(indep.data[1]) ELSE Len(indep.data)
GivenK(indep) == IF indep.ndim = 1 THEN 1 ELSE Len(indep.data[1])
GivenEntry(indep, i, j) ==
    IF indep.ndim = 1 THEN indep.data[1][i] ELSE indep.data[i][j]
Extra(a) == (IF a.constant # 0 THEN 1 ELSE 0)
            + (IF a.trend.isNone THEN 0 ELSE 1)
\* design matrix of T rows for K regressors given by entry(i, j)
DesignOK(T, K, entry(_, _)) ==
    /\ Shape(self.X) = <<T, K + Extra(args)>>
    /\ self.nobs = T /\ self.nvars = K /\ self.ncoefs = K + Extra(args)
    /\ \A i \in 1..T : \A j \in 1..K : self.X[i][j] = entry(i, j)
    /\ args.constant # 0 =>
           \A i \in 1..T : self.X[i][K + 1] = args.constant
    /\ ~args.trend.isNone =>
           \A i \in 1..T : self.X[i][K + Extra(args)] = (i - 1) - args.trend.v

\* C7 as stated: for every indep, one-dimensional of length T or a T x K
\* matrix, makeX returns a (T, K') matrix with the regressors, then the
\* constant, then the trend, and nobs = T, nvars = K, ncoefs = K'.
C7_Shape ==
    (op = "makeX" /\ err = NoErr) =>
        LET entry(i, j) == GivenEntry(args.indep, i, j)
        IN  DesignOK(GivenT(args.indep), GivenK(args.indep), entry)

\* C7 as amended: the same for a one-dimensional indep and for a matrix of
\* at least two rows; a matrix of one row (1 x L) is taken for a
\* one-dimensional sequence of length L: T = L and K = 1.
C7_ShapeAmended ==
    (op = "makeX" /\ err = NoErr) =>
        IF args.indep.ndim = 2 /\ Len(args.indep.data) = 1
        THEN LET entry(i, j) == args.indep.data[1][i]
             IN  DesignOK(Len(args.indep.data[1]), 1, entry)
        ELSE LET entry(i, j) == GivenEntry(args.indep, i, j)
             IN  DesignOK(GivenT(args.indep), GivenK(args.indep), entry)
C7_Witness ==
    /\ op = "makeX" /\ err = NoErr
    /\ args.indep = Vector(<<0, 1, 0>>)
    /\ args.constant = 1 /\ args.trend = TrendAt(1)
    /\ self.X = <<<<0, 1, -1>>, <<1, 1, 0>>, <<0, 1, 1>>>>

XName(i) == <<"x", "0", Digits[i + 1]>>
Distinct(s) == \A i, j \in 1..Len(s) : i # j => s[i] # s[j]
ConstantTrendNamed(names) ==
    /\ args.constant # 0 => names[self.nvars + 1] = ConstantName
    /\ ~args.trend.isNone => names[self.ncoefs] = TrendName

\* C8 as stated: whatever indep_names the caller passes, the names list has
\* K' pairwise distinct entries, x01, x02, ... for the unnamed regressors,
\* Constant and Trend for the appended columns.
C8_Names ==
    (op = "makeX" /\ err = NoErr) =>
        LET names == self.indep_names.items
        IN  /\ Len(names) = self.ncoefs
            /\ Distinct(names)
            /\ ConstantTrendNamed(names)
            /\ args.indep_names.items = <<>> =>
                   \A i \in 1..self.nvars : names[i] = XName(i)

\* C8 as amended: with indep_names left empty the names list has K'
\* pairwise distinct entries in column order, x01, x02, ... then Constant
\* and Trend; names the caller passes are kept as given, whatever their
\* number and whether distinct or not, followed by Constant and Trend.
C8_NamesAmended ==
    (op = "makeX" /\ err = NoErr) =>
        LET names == self.indep_names.items
            tail  == (IF args.constant # 0 THEN <<ConstantName>> ELSE <<>>)
                     \o (IF args.trend.isNone THEN <<>> ELSE <<TrendName>>)
        IN  IF args.indep_names.items = <<>>
            THEN /\ Len(names) = self.ncoefs
                 /\ Distinct(names)
                 /\ ConstantTrendNamed(names)
                 /\ \A i \in 1..self.nvars : names[i] = XName(i)
            ELSE names = args.indep_names.items \o tail
C8_Witness ==
    /\ op = "makeX" /\ err = NoErr
    /\ args.indep_names = Str(<<>>)
    /\ self.indep_names.items =
           <<XName(1), XName(2), ConstantName, TrendName>>

\* C9: the design matrix has a trend column exactly when trend is not None
\* (offset 0 included), its entries are i - trend for i = 0..nobs-1, and a
\* constant column exactly when constant is truthy, whatever the trend.
C9_TrendConstant ==
    (op = "makeX" /\ err = NoErr) =>
        LET X    == self.X
            K    == IF Len(args.indep.data) = 1 THEN 1
                    ELSE Len(args.indep.data[1])
            hasC == args.constant # 0
            hasT == ~args.trend.isNone
            cols == K + (IF hasC THEN 1 ELSE 0) + (IF hasT THEN 1 ELSE 0)
        IN  /\ NCols(X) = cols
            /\ hasT => \A i \in 1..NRows(X) :
                           X[i][cols] = (i - 1) - args.trend.v
            /\ hasC => \A i \in 1..NRows(X) : X[i][K + 1] = args.constant
C9_Witness ==
    /\ op = "makeX" /\ err = NoErr
    /\ args.trend = TrendAt(0) /\ args.constant = 0
    /\ args.indep = Vector(<<1, 1, 1>>)
    /\ self.X = <<<<1, 0>>, <<1, 1>>, <<1, 2>>>>

EstimatorFields == {"coefs", "_resids", "fitted", "ess", "df_e", "df_r",
                    "sigma2", "R2", "R2adj", "F", "X", "nobs", "ncoefs"}

\* C10: no read of cov, se, tvals, pvals, pvalF, resids, slope_intercept or
\* the text rendering changes coefs, resids, fitted, ess, df_e, df_r, sigma2,
\* R2, R2adj, F, X, nobs or ncoefs.
C10_ReadsKeepEstimator ==
    [][pc = "constructed" =>
        \A f \in EstimatorFields : self'[f] = self[f]]_vars
C10_Witness ==
    /\ pc = "constructed" /\ op = "slope_intercept" /\ err = NoErr
    /\ \A f \in CacheFields \ {"_pvalF"} : self[f] # None
    /\ self.X = <<<<0, 1>>, <<1, 1>>, <<2, 1>>>>
    /\ ret.v = <<Norm(1, 2), Norm(-1, 6)>>

\* C11: a fit whose residual sum of squares is exactly zero constructs, with
\* all residuals zero and R2 = 1.
C11_PerfectFit ==
    (op = "__init__" /\ "ess" \in DOMAIN self /\ self.ess = R(0)
       /\ Len(args.dep) = PyLen(args.indep)) =>
        /\ pc = "constructed"
        /\ err = NoErr
        /\ \A i \in 1..Len(self._resids) : self._resids[i] = R(0)
        /\ self.R2 = R(1)

OrderedCaches == <<"_cov", "_standard_errors", "_tvals", "_pvals">>

SignChanging ==
    \/ Negative(call(args.f, args.x1)) /\ Positive(call(args.f, args.x2))
    \/ Negative(call(args.f, args.x2)) /\ Positive(call(args.f, args.x1))
\* f(x1) and f(x2) are of the same strict sign
SameSign ==
    \/ Negative(call(args.f, args.x1)) /\ Negative(call(args.f, args.x2))
    \/ Positive(call(args.f, args.x1)) /\ Positive(call(args.f, args.x2))

\* C12: on a sign-changing interval bisect returns, with a bracket such that
\* f(xneg) <= 0 < f(xpos) and |xpos - xneg| <= eps, the midpoint of the
\* bracket.
C12_BisectZero ==
    (op = "bisect" /\ SignChanging) =>
        /\ pc = "returned"
        /\ err = NoErr
        /\ ~Positive(call(args.f, locals.xneg))
        /\ Positive(call(args.f, locals.xpos))
        /\ ~RLt(args.eps, RAbs(RSub(locals.xpos, locals.xneg)))
        /\ ret = Float(midpoint(locals.xneg, locals.xpos))

\* C13: bisect raises ValueError when f(x1) and f(x2) have the same strict
\* sign; Bisect raises ValueError unless the interval is sign changing, and
\* a constructed Bisect has f(x_neg) < 0 < f(x_pos) and has not iterated.
C13_SignChangeRequired ==
    /\ (op = "bisect" /\ SameSign) =>
           (pc = "failed" /\ err = Raise("ValueError", 154))
    /\ op = "Bisect.__init__" =>
           /\ (err = Raise("ValueError", 118)) <=> ~SignChanging
           /\ SignChanging =>
                  /\ pc = "constructed"
                  /\ Negative(call(args.f, self.x_neg))
                  /\ Positive(call(args.f, self.x_pos))
                  /\ self.history = <<>>
                  /\ self.iterations = 0

\* the width 1e-9 of the default criterion
DefaultWidth == Norm(1, 10^9)

\* C16: run() on a Bisect constructed with criterion=None completes, with a
\* bracket narrower than 1e-9 and value the midpoint of the bracket.
C16_DefaultCriterionRun ==
    (op = "run" /\ args.criterion = None) =>
        /\ pc = "finished"
        /\ err = NoErr
        /\ self.value = Float(midpoint(self.x_neg, self.x_pos))
        /\ RLt(RAbs(RSub(self.x_pos, self.x_neg)), DefaultWidth)

\* C17: a call of a stop criterion returns True exactly when iterations >=
\* maxit or test(testval) is true; optimized becomes True only in a call
\* with iterations < maxit whose test is true, a call that stops on maxit
\* does not run test nor change optimized, and optimized once True stays
\* True.
C17_StopIterCall ==
    [][(pc = "constructed" /\ op' = "__call__") =>
        LET it == locals'.iterations
            t  == is_true(test(self, locals'.testval))
        IN  /\ ret' = Bool(it >= self.maxit \/ t)
            /\ (self'.optimized /\ ~self.optimized) => (it < self.maxit /\ t)
            /\ it >= self.maxit =>
                   (~locals'.tested /\ self'.optimized = self.optimized)
            /\ self.optimized => self'.optimized]_vars
C17_Witness ==
    /\ pc = "constructed" /\ op = "__call__"
    /\ self.cls = "AbsDiff" /\ self.optimized
    /\ locals.iterations >= self.maxit /\ ~locals.tested
    /\ ret = Bool(TRUE)
    /\ ~is_true(test(self, locals.testval))

Renderings == {"as_text", "as_csv", "as_latex_tabular"}

\* C14: as_text on a table of R rows and K columns, with or without headers
\* and stubs, returns, and every row of the text holds all of its cells: K,
\* plus one when stubs are given.
C14_AllCells ==
    op = "as_text" =>
        /\ err = NoErr
        /\ Len(locals.ncells) =
               Len(args.data) + (IF args.headers # <<>> THEN 1 ELSE 0)
        /\ \A r \in 1..Len(locals.ncells) :
               locals.ncells[r] =
                   Len(args.data[1]) + (IF args.stubs # <<>> THEN 1 ELSE 0)

\* C15: no rendering changes self.data, self.headers or self.stubs, and an
\* as_text call right after an as_text call gives the same outcome.
C15_RenderKeepsTable ==
    [][(pc = "constructed" /\ op' \in Renderings) =>
        /\ self'.data = self.data
        /\ self'.headers = self.headers
        /\ self'.stubs = self.stubs
        /\ (op = "as_text" /\ op' = "as_text") =>
               (ret' = ret /\ err' = err)]_vars
C15_Witness ==
    /\ pc = "constructed" /\ op = "as_text" /\ err = NoErr
    /\ self.data = <<<<1, 22>>, <<22, 1>>>>
    /\ self.headers = <<"h1", "h2">>
    /\ self.stubs = <<"r1", "r2">>
    /\ self.title = "T"
    /\ ret = Text("   T    \n========\n   h1 h2\n--------\nr1 1  22\nr2 22 1 \n--------\n")

====
